---- MODULE Spec2Model ----
(***************************************************************************)
(* Model of PbStockResearcher: the acquisition pipeline                    *)
(* (scraper.EdgarFullIndexScraper), the types of package filings with      *)
(* their validation and mapping tables, and the batch consumer (main).     *)
(*                                                                         *)
(* Go strings are modelled as sequences of one-character strings, so that  *)
(* strings.Contains, strings.Split, strings.Replace, strings.Trim,         *)
(* strconv.Itoa and strconv.Atoi are computed character by character.      *)
(***************************************************************************)
EXTENDS Integers, Sequences, FiniteSets, TLC

(***************************************************************************)
(* Bounds of the model                                                     *)
(***************************************************************************)
\* size of the bufio.Reader buffer (4096 in the Go runtime, scaled down)
BufSize == 32
\* number of logical lines the index file may have
MaxLines == 3
\* number of times the quarterly scrape is run against the same store
MaxRuns == 2
\* length of the form types the key deriver is applied to
MaxLen == 3
\* number of entries an archive may have
MaxEntries == 3
\* largest quarter number a raw report may carry
MaxQuarter == 5
\* page size of the batch consumer (20 in main, scaled down)
batchLimit == 2
\* number of report files in the work queue when the consumer starts
MaxQueue == 3

(***************************************************************************)
(* Characters and Go string functions                                      *)
(***************************************************************************)
Digits == {"0", "1", "2", "3", "4", "5", "6", "7", "8", "9"}

Lower == {"a", "b", "c", "d", "e", "f", "g", "h", "i", "j", "k", "l", "m",
          "n", "o", "p", "q", "r", "s", "t", "u", "v", "w", "x", "y", "z"}

DigitVal(c) ==
    CASE c = "0" -> 0 [] c = "1" -> 1 [] c = "2" -> 2 [] c = "3" -> 3
      [] c = "4" -> 4 [] c = "5" -> 5 [] c = "6" -> 6 [] c = "7" -> 7
      [] c = "8" -> 8 [] c = "9" -> 9

DigitChar(d) ==
    CASE d = 0 -> "0" [] d = 1 -> "1" [] d = 2 -> "2" [] d = 3 -> "3"
      [] d = 4 -> "4" [] d = 5 -> "5" [] d = 6 -> "6" [] d = 7 -> "7"
      [] d = 8 -> "8" [] d = 9 -> "9"

\* strings.Contains(s, substr)
Contains(s, substr) ==
    \E i \in 1..(Len(s) - Len(substr) + 1) :
        SubSeq(s, i, i + Len(substr) - 1) = substr

\* index of the first occurrence of the character sep in s, 0 if none
RECURSIVE IndexFrom(_, _, _)
IndexFrom(s, sep, i) ==
    IF i > Len(s) THEN 0
    ELSE IF s[i] = sep THEN i
    ELSE IndexFrom(s, sep, i + 1)

\* strings.Split(s, sep) for a one-character separator: n separators give
\* n+1 pieces, and the empty string gives one empty piece
RECURSIVE Split(_, _)
Split(s, sep) ==
    LET i == IndexFrom(s, sep, 1)
    IN  IF i = 0 THEN << s >>
        ELSE << SubSeq(s, 1, i - 1) >> \o Split(SubSeq(s, i + 1, Len(s)), sep)

\* strings.Join(parts, sep)
RECURSIVE Join(_, _)
Join(parts, sep) ==
    IF Len(parts) = 0 THEN << >>
    ELSE IF Len(parts) = 1 THEN parts[1]
    ELSE parts[1] \o sep \o Join(Tail(parts), sep)

\* strings.Replace(s, old, new, n) for one-character old; n < 0 replaces
\* every occurrence, otherwise the first n
RECURSIVE Replace(_, _, _, _)
Replace(s, old, new, n) ==
    IF Len(s) = 0 \/ n = 0 THEN s
    ELSE IF Head(s) = old
         THEN new \o Replace(Tail(s), old, new, IF n < 0 THEN n ELSE n - 1)
         ELSE << Head(s) >> \o Replace(Tail(s), old, new, n)

\* strings.Trim(s, cutset): strips leading and trailing characters of cutset
RECURSIVE TrimLeft(_, _)
TrimLeft(s, cutset) ==
    IF Len(s) > 0 /\ Head(s) \in cutset THEN TrimLeft(Tail(s), cutset) ELSE s

RECURSIVE TrimRight(_, _)
TrimRight(s, cutset) ==
    IF Len(s) > 0 /\ s[Len(s)] \in cutset
    THEN TrimRight(SubSeq(s, 1, Len(s) - 1), cutset)
    ELSE s

Trim(s, cutset) == TrimRight(TrimLeft(s, cutset), cutset)

\* strconv.Itoa(n)
RECURSIVE ItoaNat(_)
ItoaNat(n) ==
    IF n < 10 THEN << DigitChar(n) >>
    ELSE ItoaNat(n \div 10) \o << DigitChar(n % 10) >>

Itoa(n) == IF n < 0 THEN << "-" >> \o ItoaNat(0 - n) ELSE ItoaNat(n)

\* strconv.Atoi(s): an optional sign followed by one or more decimal digits;
\* on a syntax error the value is 0 and err is set
RECURSIVE AtoiDigits(_, _)
AtoiDigits(s, acc) ==
    IF Len(s) = 0 THEN acc
    ELSE AtoiDigits(Tail(s), acc * 10 + DigitVal(Head(s)))

Atoi(s) ==
    LET signed == Len(s) > 0 /\ Head(s) \in {"+", "-"}
        body   == IF signed THEN Tail(s) ELSE s
        ok     == Len(body) > 0 /\ \A i \in 1..Len(body) : body[i] \in Digits
        val    == IF ok THEN AtoiDigits(body, 0) ELSE 0
    IN  [err |-> ~ok,
         val |-> IF signed /\ Head(s) = "-" THEN 0 - val ELSE val]

(***************************************************************************)
(* Program constants                                                       *)
(***************************************************************************)
\* the header separator literal of ParseIndexFile
DASHES == << "-", "-", "-", "-", "-", "-", "-" >>

DOT_TXT == << ".", "t", "x", "t" >>

TXT_CUTSET == {".", "t", "x"}

SEC_EDGAR_BASE_URL == << "h", "t", "t", "p", ":", "/", "/", "w", "w", "w",
                         ".", "s", "e", "c", ".", "g", "o", "v", "/", "A",
                         "r", "c", "h", "i", "v", "e", "s", "/" >>

XBRL_ZIP_SUFFIX == << "-", "x", "b", "r", "l", ".", "z", "i", "p" >>

StatusOK == 200

(***************************************************************************)
(* Key deriver                                                             *)
(***************************************************************************)
getBucket(cik) == << "C", "I", "K", "_" >> \o cik

\* a key deriver that rewrites only the first "/"
getKeyFirstSlash(formType, yr, qtr) ==
    LET key == << "Y" >> \o Itoa(yr) \o << "Q" >> \o Itoa(qtr)
               \o << "F", "T" >> \o formType
    IN  Replace(key, "/", << "_" >>, 1)

getKey(formType, yr, qtr) ==
    LET key == << "Y" >> \o Itoa(yr) \o << "Q" >> \o Itoa(qtr)
               \o << "F", "T" >> \o formType
    IN  Replace(key, "/", << "_" >>, -1)

\* regexp.MatchString("([a-z]|[0-9])+-[0-9]+.xml", fileName): unanchored,
\* and the "." before xml matches any character
isXbrlFileMatch(fileName) ==
    \E d \in 2..Len(fileName) :
        /\ fileName[d] = "-"
        /\ fileName[d - 1] \in (Lower \cup Digits)
        /\ \E m \in (d + 1)..(Len(fileName) - 4) :
              /\ \A j \in (d + 1)..m : fileName[j] \in Digits
              /\ fileName[m + 1] # "\n"
              /\ SubSeq(fileName, m + 2, m + 4) = << "x", "m", "l" >>

(***************************************************************************)
(* Blob store (tmpStore.TempStore): a set of (bucket, name) entries        *)
(***************************************************************************)
PathOf(bucket, name) == << "/" >> \o bucket \o << "/" >> \o name

\* TempStore.GetFilePath(bucket, key): the path, or "" when nothing is stored
GetFilePath(st, bucket, key) ==
    IF [bucket |-> bucket, name |-> key] \in st
    THEN PathOf(bucket, key)
    ELSE << >>

\* TempStore.StoreFile(bucket, name, reader): the path, or "" on failure
StoreFilePath(bucket, name, ok) == IF ok THEN PathOf(bucket, name) ELSE << >>

\* the store after a sequence of StoreFile calls
StoreAfter(st, calls) ==
    st \cup {[bucket |-> calls[i].bucket, name |-> calls[i].name] :
                 i \in {j \in 1..Len(calls) : calls[j].ok}}

(***************************************************************************)
(* Persisters                                                              *)
(***************************************************************************)
\* PersistCompany.InsertUpdateCompany: upsert by CIK
InsertUpdateCompany(cs, company) ==
    {c \in cs : c.CIK # company.CIK} \cup {company}

SameReportFile(a, b) ==
    /\ a.CIK = b.CIK /\ a.Year = b.Year /\ a.Quarter = b.Quarter
    /\ a.FormType = b.FormType /\ a.Filepath = b.Filepath

\* PersistReportFiles.InsertUpdateReportFile: upsert of one report file
InsertUpdateReportFile(rs, rf) ==
    {r \in rs : ~SameReportFile(r, rf)} \cup {rf}

RECURSIVE InsertUpdateReportFiles(_, _)
InsertUpdateReportFiles(rs, rfs) ==
    IF Len(rfs) = 0 THEN rs
    ELSE InsertUpdateReportFiles(InsertUpdateReportFile(rs, Head(rfs)), Tail(rfs))

(***************************************************************************)
(* Inputs of the environment                                               *)
(***************************************************************************)
Years == {2013}
Quarters == {1}

\* outcomes of http.Get: an error, or a response with a status code
GetOutcomes ==
    {[err |-> TRUE, status |-> 0],
     [err |-> FALSE, status |-> 404],
     [err |-> FALSE, status |-> StatusOK]}

\* time.Now().Unix(): the clock is read as one second, because the time only
\* prefixes the name of the stored archive, which no lookup ever asks for
Times == {1}

EntryXsd  == << "a", "-", "1", ".", "x", "s", "d" >>
EntryInst == << "a", "-", "1", ".", "x", "m", "l" >>
EntryLab  == << "a", "-", "1", "_", "l", "a", "b", ".", "x", "m", "l" >>

\* what zip.OpenReader makes of stored bytes: an error, or the entry names
ZipError == [err |-> TRUE, File |-> << >>]

ZipNoMatch == [err |-> FALSE, File |-> << EntryXsd, EntryLab >>]

ZipMatch == [err |-> FALSE, File |-> << EntryXsd, EntryInst, EntryLab >>]

\* a second entry with the shape of an instance document
EntryInst2 == << "b", "-", "2", ".", "x", "m", "l" >>

Env(get, now, zipStoreOk, zip, openOk, storeOk) ==
    [get |-> get, now |-> now, zipStoreOk |-> zipStoreOk, zip |-> zip,
     openOk |-> openOk, storeOk |-> storeOk]

\* what the environment may answer while one record is processed: the
\* outcome of the package GET, the clock, the outcome of storing the body,
\* the archive found in it, and the outcomes of opening and storing the
\* instance document.  An answer that is never asked for (the archive of a
\* failed GET, say) is fixed; the body of a 404 response is not an archive.
Envs ==
    UNION {
      {Env([err |-> TRUE, status |-> 0], now, FALSE, ZipError, FALSE, FALSE),
       Env([err |-> FALSE, status |-> 404], now, FALSE, ZipError, FALSE, FALSE),
       Env([err |-> FALSE, status |-> 404], now, TRUE, ZipError, FALSE, FALSE),
       Env([err |-> FALSE, status |-> StatusOK], now, FALSE, ZipError, FALSE, FALSE),
       Env([err |-> FALSE, status |-> StatusOK], now, TRUE, ZipError, FALSE, FALSE),
       Env([err |-> FALSE, status |-> StatusOK], now, TRUE, ZipNoMatch, FALSE, FALSE),
       Env([err |-> FALSE, status |-> StatusOK], now, TRUE, ZipMatch, FALSE, FALSE),
       Env([err |-> FALSE, status |-> StatusOK], now, TRUE, ZipMatch, TRUE, FALSE),
       Env([err |-> FALSE, status |-> StatusOK], now, TRUE, ZipMatch, TRUE, TRUE)}
      : now \in Times }

(***************************************************************************)
(* Instance-document extractor and filing package retriever                *)
(***************************************************************************)
\* what one call of GetXbrl did; acquired and released list, in order, the
\* response bodies and readers the call has opened and closed, and nilClose
\* says that a deferred Close was evaluated on a nil reader
NoXbrl ==
    [panic |-> FALSE, fetched |-> FALSE, url |-> << >>,
     get |-> [err |-> FALSE, status |-> 0],
     stores |-> << >>, handed |-> FALSE, opened |-> << >>,
     persisted |-> << >>,
     acquired |-> << >>, released |-> << >>, nilClose |-> FALSE]

\* a scan that goes on after a match and so ends on the last matching entry
RECURSIVE LastMatch(_, _)
LastMatch(files, i) ==
    IF i > Len(files) THEN 0
    ELSE IF LastMatch(files, i + 1) # 0 THEN LastMatch(files, i + 1)
    ELSE IF isXbrlFileMatch(files[i]) THEN i
    ELSE 0

\* position of the first archive entry that matches, 0 if none
RECURSIVE FirstMatch(_, _)
FirstMatch(files, i) ==
    IF i > Len(files) THEN 0
    ELSE IF isXbrlFileMatch(files[i]) THEN i
    ELSE FirstMatch(files, i + 1)

\* an extractor that stores the instance document under the name of its
\* archive entry instead of the derived key
getXbrlFromZipEntryName(zip, bucket, fileKey, reportFile, openOk, storeOk) ==
    LET Scan(m) ==
          IF m = 0
          THEN [NoXbrl EXCEPT !.handed = TRUE,
                              !.acquired = << "archive" >>,
                              !.released = << "archive" >>]
          ELSE IF ~openOk
               THEN [NoXbrl EXCEPT !.handed = TRUE, !.panic = TRUE,
                                   !.nilClose = TRUE,
                                   !.acquired = << "archive" >>,
                                   !.released = << "archive" >>]
          ELSE [NoXbrl EXCEPT
                  !.handed = TRUE,
                  !.acquired = << "archive", "entry" >>,
                  !.released = << "entry", "archive" >>,
                  !.opened = << zip.File[m] >>,
                  !.stores = << [bucket |-> bucket, name |-> zip.File[m],
                                 ok |-> storeOk, what |-> "xbrl"] >>,
                  !.persisted = << [reportFile EXCEPT
                      !.Filepath = StoreFilePath(bucket, zip.File[m], storeOk)] >>]
    IN  IF zip.err THEN [NoXbrl EXCEPT !.handed = TRUE]
        ELSE Scan(FirstMatch(zip.File, 1))

\* getXbrlFromZip: zip is what zip.OpenReader makes of the stored bytes,
\* openOk the outcome of zippedFile.Open(), storeOk that of StoreFile.
\* zippedFile.Open() returns a nil reader with its error, and the deferred
\* xbrlFile.Close() on that nil reader panics; the deferred zipReader.Close()
\* still runs while the panic unwinds.
getXbrlFromZip(zip, bucket, fileKey, reportFile, openOk, storeOk) ==
    LET Scan(m) ==
          IF m = 0
          THEN [NoXbrl EXCEPT !.handed = TRUE,
                              !.acquired = << "archive" >>,
                              !.released = << "archive" >>]
          ELSE IF ~openOk
               THEN [NoXbrl EXCEPT !.handed = TRUE, !.panic = TRUE,
                                   !.nilClose = TRUE,
                                   !.acquired = << "archive" >>,
                                   !.released = << "archive" >>]
          ELSE [NoXbrl EXCEPT
                  !.handed = TRUE,
                  !.acquired = << "archive", "entry" >>,
                  !.released = << "entry", "archive" >>,
                  !.opened = << zip.File[m] >>,
                  !.stores = << [bucket |-> bucket, name |-> fileKey,
                                 ok |-> storeOk, what |-> "xbrl"] >>,
                  !.persisted = << [reportFile EXCEPT
                      !.Filepath = StoreFilePath(bucket, fileKey, storeOk)] >>]
    IN  IF zip.err THEN [NoXbrl EXCEPT !.handed = TRUE]
        ELSE Scan(FirstMatch(zip.File, 1))

\* GetXbrl: env.get is the outcome of http.Get, env.now is time.Now().Unix(),
\* env.zipStoreOk the outcome of storing the response body
GetXbrl(edgarFilename, bucket, fileKey, reportFile, env) ==
    LET Fetch(fullUrl, outputFileName) ==
          LET zipCall == [bucket |-> bucket, name |-> outputFileName,
                          ok |-> env.zipStoreOk, what |-> "zip"]
              Extract(sub) ==
                  [sub EXCEPT !.fetched = TRUE, !.url = fullUrl,
                              !.get = env.get,
                              !.stores = << zipCall >> \o sub.stores,
                              !.acquired = << "packageBody" >> \o sub.acquired,
                              !.released = sub.released \o << "packageBody" >>]
          IN  IF env.get.err
              THEN [NoXbrl EXCEPT !.fetched = TRUE, !.url = fullUrl,
                                  !.get = env.get]
              ELSE IF StoreFilePath(bucket, outputFileName, env.zipStoreOk) = << >>
              THEN [NoXbrl EXCEPT !.fetched = TRUE, !.url = fullUrl,
                                  !.get = env.get, !.stores = << zipCall >>,
                                  !.acquired = << "packageBody" >>,
                                  !.released = << "packageBody" >>]
              ELSE Extract(getXbrlFromZip(env.zip, bucket, fileKey, reportFile,
                                          env.openOk, env.storeOk))
        Convert(parts, baseName) ==
          Fetch(SEC_EDGAR_BASE_URL \o
                  Join([parts EXCEPT ![4] =
                          Replace(baseName, "-", << >>, -1) \o << "/" >>
                          \o baseName \o XBRL_ZIP_SUFFIX], << "/" >>),
                Itoa(env.now) \o baseName \o XBRL_ZIP_SUFFIX)
        Derive(parts) ==
          IF Len(parts) < 4 THEN [NoXbrl EXCEPT !.panic = TRUE]
          ELSE Convert(parts, Trim(parts[4], TXT_CUTSET))
    IN  IF ~Contains(edgarFilename, DOT_TXT) THEN NoXbrl
        ELSE Derive(Split(edgarFilename, "/"))

(***************************************************************************)
(* One record of the index (the LIST branch of ParseIndexFile)             *)
(***************************************************************************)
\* a dedup check that downloads whatever the store holds
needsDownloadAlways(filePath) == TRUE

\* the dedup check: a package is fetched only when the store has no path
needsDownload(filePath) == filePath = << >>

NoRecord ==
    [panic |-> FALSE, fields |-> 0, cik |-> << >>, formType |-> << >>,
     cikErr |-> FALSE, cikInt |-> 0, upserted |-> FALSE, company |-> << >>,
     lookedUp |-> FALSE, bucket |-> << >>, fileKey |-> << >>,
     filePath |-> << >>, called |-> FALSE, xbrl |-> NoXbrl]

ParseRecord(lineStr, st, yr, qtr, env) ==
    LET Handle(elements, a, bucket, fileKey, filePath, x) ==
          [panic |-> x.panic, fields |-> Len(elements),
           cik |-> elements[1], formType |-> elements[3],
           cikErr |-> a.err, cikInt |-> a.val,
           upserted |-> ~a.err,
           company |-> [CIK |-> a.val, Name |-> elements[2]],
           lookedUp |-> TRUE, bucket |-> bucket, fileKey |-> fileKey,
           filePath |-> filePath, called |-> needsDownload(filePath),
           xbrl |-> x]
        Download(elements, a, bucket, fileKey, filePath) ==
          Handle(elements, a, bucket, fileKey, filePath,
                 IF needsDownload(filePath)
                 THEN GetXbrl(elements[5], bucket, fileKey,
                              [CIK |-> a.val, Year |-> yr, Quarter |-> qtr,
                               Parsed |-> FALSE, FormType |-> elements[3],
                               Filepath |-> << >>],
                              env)
                 ELSE NoXbrl)
        Lookup(elements, a, bucket, fileKey) ==
          Download(elements, a, bucket, fileKey,
                   GetFilePath(st, bucket, fileKey))
        Fields(elements) ==
          IF Len(elements) < 5
          THEN [NoRecord EXCEPT !.panic = TRUE, !.fields = Len(elements)]
          ELSE Lookup(elements, Atoi(elements[1]), getBucket(elements[1]),
                      getKey(elements[3], yr, qtr))
    IN  Fields(Split(lineStr, "|"))

(***************************************************************************)
(* The index file and bufio.Reader.ReadLine                                *)
(***************************************************************************)
Pad(n) == [i \in 1..n |-> "x"]

Rec(cik, name, formType, date, filename) ==
    Join(<< cik, name, formType, date, filename >>, << "|" >>)

Cik12    == << "1", "2" >>
Cik012   == << "0", "1", "2" >>
CikBad   == << "x", "1" >>
NameA    == << "A" >>
Form10K  == << "1", "0", "-", "K" >>
Form10KA == << "1", "0", "-", "K", "/", "A" >>
DateD    == << "d" >>
FileTxt  == << "e", "/", "d", "/", "1", "/", "a", "-", "1", ".", "t", "x", "t" >>
FileHtm  == << "e", "/", "d", "/", "1", "/", "a", "-", "1", ".", "h", "t", "m" >>

LineHeader   == << "h" >>
LineRecord   == Rec(Cik12, NameA, Form10K, DateD, FileTxt)
LineZeroCik  == Rec(Cik012, NameA, Form10K, DateD, FileTxt)
LineBadCik   == Rec(CikBad, NameA, Form10KA, DateD, FileTxt)
LineHtm      == Rec(Cik12, NameA, Form10KA, DateD, FileHtm)
LineThree    == Join(<< Cik12, NameA, Form10K >>, << "|" >>)
\* a row whose first field makes it longer than the buffer: ReadLine returns
\* BufSize characters of that field first, and then the rest of the row
LineLong     == Pad(BufSize) \o LineHtm

\* the logical lines an index file is made of; each ends with a newline
Lines ==
    {LineHeader, DASHES, LineRecord, LineZeroCik, LineBadCik, LineThree,
     LineLong}

\* the successive results of ReadLine on one logical line: while the line
\* and its newline do not fit the buffer, a buffer-sized chunk with
\* isPrefix set; then the remainder with isPrefix clear
RECURSIVE ReadLine(_, _)
ReadLine(lineNo, rest) ==
    IF Len(rest) + 1 <= BufSize
    THEN << [line |-> rest, isPrefix |-> FALSE, eof |-> FALSE,
             lineNo |-> lineNo] >>
    ELSE << [line |-> SubSeq(rest, 1, BufSize), isPrefix |-> TRUE,
             eof |-> FALSE, lineNo |-> lineNo] >>
         \o ReadLine(lineNo, SubSeq(rest, BufSize + 1, Len(rest)))

RECURSIVE ReadAllFrom(_, _)
ReadAllFrom(idx, i) ==
    IF i > Len(idx) THEN << >>
    ELSE ReadLine(i, idx[i]) \o ReadAllFrom(idx, i + 1)

\* every ReadLine result of an index file, before the final (nil, EOF)
ReadAll(idx) == ReadAllFrom(idx, 1)

EndOfFile == [line |-> << >>, isPrefix |-> FALSE, eof |-> TRUE, lineNo |-> 0]

(***************************************************************************)
(* State                                                                   *)
(***************************************************************************)
VARIABLES
    year,       \* efis.year
    quarter,    \* efis.quarter
    index,      \* the logical lines of the index file served so far
    sealed,     \* the index file has been read to its end once
    run,        \* number of calls of ScrapeEdgarQuarterlyIndex so far
    pc,         \* "idle", "parse", "done" or "panic"
    pos,        \* number of ReadLine calls of the current ParseIndexFile
    listBegun,  \* ParseIndexFile's listBegun
    recs,       \* line numbers handled as records by the current run
    store,      \* the blob store
    companies,  \* the persisted companies
    reports,    \* the persisted report files
    extracted,  \* records whose instance document StoreFile has stored
    last,       \* what the latest step did
    held,       \* resources the current run has acquired and not released
    arg,        \* input of the function applied on its own
    ret,        \* output of the function applied on its own
    consumer,   \* the locals of the batch consumer (main)
    hist        \* what the batch consumer has pulled and normalized so far

vars == << year, quarter, index, sealed, run, pc, pos, listBegun, recs,
           store, companies, reports, extracted, last, held, arg, ret,
           consumer, hist >>

pipelineVars == << year, quarter, index, sealed, run, pc, pos, listBegun,
                   recs, store, companies, reports, extracted, last, held >>

keyVars == << arg, ret >>

consumerVars == << consumer, hist >>

NoStep ==
    [op |-> "none", run |-> 0, lineNo |-> 0, line |-> << >>,
     get |-> [err |-> FALSE, status |-> 0], gets |-> 0, rec |-> NoRecord]

NoArg == [cik |-> << >>, formType |-> << >>, year |-> 0, quarter |-> 0]

NoRet == [done |-> FALSE, bucket |-> << >>, key |-> << >>]

\* main before its first statement
NoConsumer ==
    [pc |-> "idle", page |-> << >>, numValid |-> 0, numInvalid |-> 0,
     totalNumValid |-> 0, totalNumInvalid |-> 0]

NoHist == [pulled |-> << >>, attempted |-> {}, pages |-> 0]

Init ==
    /\ year \in Years
    /\ quarter \in Quarters
    /\ index = << >>
    /\ sealed = FALSE
    /\ run = 0
    /\ pc = "idle"
    /\ pos = 0
    /\ listBegun = FALSE
    /\ recs = << >>
    /\ store = {}
    /\ companies = {}
    /\ reports = {}
    /\ extracted = {}
    /\ last = NoStep
    /\ held = {}
    /\ consumer = NoConsumer
    /\ hist = NoHist
    /\ arg = NoArg
    /\ ret = NoRet

(***************************************************************************)
(* ScrapeEdgarQuarterlyIndex                                               *)
(***************************************************************************)
\* an index fetch that looks at the error only, as GetXbrl does
indexGetOkAnyStatus(get) == ~get.err

\* the index response is parsed only without error and with status 200
indexGetOk(get) == ~get.err /\ get.status = StatusOK

ScrapeEdgarQuarterlyIndex ==
    /\ pc \in {"idle", "done", "panic"}
    /\ run < MaxRuns
    /\ \E get \in GetOutcomes :
          /\ pc' = IF indexGetOk(get) THEN "parse" ELSE "done"
          /\ last' = [NoStep EXCEPT !.op = "scrape", !.run = run + 1,
                                    !.get = get, !.gets = 1]
          \* the response body exists unless the GET failed; only the
          \* branch that parses it defers its Close
          /\ held' = IF get.err THEN {} ELSE {"indexBody"}
    /\ run' = run + 1
    /\ pos' = 0
    /\ listBegun' = FALSE
    /\ recs' = << >>
    /\ UNCHANGED << year, quarter, index, sealed, store, companies, reports,
                    extracted, keyVars, consumerVars >>

(***************************************************************************)
(* ParseIndexFile: one iteration of the read loop per step                 *)
(***************************************************************************)
\* the index file as the next ReadLine may find it, with the result of that
\* ReadLine: the file is revealed line by line until its end is reached
NextReads ==
    LET reads == ReadAll(index)
    IN  IF pos < Len(reads)
        THEN {[idx |-> index, r |-> reads[pos + 1], end |-> sealed]}
        ELSE {[idx |-> index, r |-> EndOfFile, end |-> TRUE]}
             \cup (IF ~sealed /\ Len(index) < MaxLines
                   THEN {[idx |-> Append(index, l),
                          r |-> ReadLine(Len(index) + 1, l)[1],
                          end |-> FALSE] : l \in Lines}
                   ELSE {})

Step(op, nr) ==
    [NoStep EXCEPT !.op = op, !.run = run, !.lineNo = nr.r.lineNo,
                   !.line = nr.r.line]

\* ReadLine reports a prefix of a line that is longer than the buffer
LineTooLong ==
    /\ pc = "parse"
    /\ \E nr \in NextReads :
          /\ nr.r.isPrefix
          /\ index' = nr.idx
          /\ sealed' = nr.end
          /\ last' = Step("toolong", nr)
    /\ pos' = pos + 1
    /\ UNCHANGED << year, quarter, run, pc, listBegun, recs, store, companies,
                    reports, extracted, held, keyVars, consumerVars >>

\* a line of the header region
HeaderLine ==
    /\ pc = "parse"
    /\ ~listBegun
    /\ \E nr \in NextReads :
          /\ ~nr.r.eof /\ ~nr.r.isPrefix
          /\ ~Contains(nr.r.line, DASHES)
          /\ index' = nr.idx
          /\ sealed' = nr.end
          /\ last' = Step("header", nr)
    /\ pos' = pos + 1
    /\ UNCHANGED << year, quarter, run, pc, listBegun, recs, store, companies,
                    reports, extracted, held, keyVars, consumerVars >>

\* the line that ends the header region
SeparatorLine ==
    /\ pc = "parse"
    /\ ~listBegun
    /\ \E nr \in NextReads :
          /\ ~nr.r.eof /\ ~nr.r.isPrefix
          /\ Contains(nr.r.line, DASHES)
          /\ index' = nr.idx
          /\ sealed' = nr.end
          /\ last' = Step("separator", nr)
    /\ listBegun' = TRUE
    /\ pos' = pos + 1
    /\ UNCHANGED << year, quarter, run, pc, recs, store, companies, reports,
                    extracted, held, keyVars, consumerVars >>

\* the answers of the environment to one record: it answers only a record
\* that issues a package GET
EnvsAsked(lineStr) ==
    LET quiet == CHOOSE env \in Envs : env.get.err
    IN  IF ParseRecord(lineStr, store, year, quarter, quiet).xbrl.fetched
        THEN Envs
        ELSE {quiet}

\* a line of the list region
RecordLine ==
    /\ pc = "parse"
    /\ listBegun
    /\ \E nr \in {n \in NextReads : ~n.r.eof /\ ~n.r.isPrefix} :
        \E env \in EnvsAsked(nr.r.line) :
          /\ ~nr.r.eof /\ ~nr.r.isPrefix
          /\ \E rec \in {ParseRecord(nr.r.line, store, year, quarter, env)} :
              LET x == rec.xbrl IN
              /\ index' = nr.idx
              /\ sealed' = nr.end
              /\ last' = [Step("record", nr) EXCEPT !.rec = rec]
              /\ pc' = IF rec.panic THEN "panic" ELSE "parse"
              \* a panic unwinds through ScrapeEdgarQuarterlyIndex, whose
              \* deferred getResp.Body.Close() then runs
              /\ held' = ((held \cup {x.acquired[i] : i \in 1..Len(x.acquired)})
                            \ {x.released[i] : i \in 1..Len(x.released)})
                         \ (IF rec.panic THEN {"indexBody"} ELSE {})
              /\ recs' = Append(recs, nr.r.lineNo)
              /\ companies' = IF rec.upserted
                              THEN InsertUpdateCompany(companies, rec.company)
                              ELSE companies
              /\ store' = StoreAfter(store, x.stores)
              /\ reports' = InsertUpdateReportFiles(reports, x.persisted)
              /\ extracted' = extracted \cup
                    {[run |-> run, lineNo |-> nr.r.lineNo, cik |-> rec.cik,
                      formType |-> rec.formType, bucket |-> rec.bucket,
                      key |-> rec.fileKey] :
                        i \in {j \in 1..Len(x.stores) :
                                 x.stores[j].what = "xbrl" /\ x.stores[j].ok}}
    /\ pos' = pos + 1
    /\ UNCHANGED << year, quarter, run, listBegun, keyVars, consumerVars >>

\* ReadLine returns (nil, EOF): the loop ends and the scrape returns
EndOfIndex ==
    /\ pc = "parse"
    /\ \E nr \in NextReads :
          /\ nr.r.eof
          /\ index' = nr.idx
          /\ sealed' = nr.end
          /\ last' = Step("eof", nr)
    /\ pc' = "done"
    \* the deferred getResp.Body.Close() runs as the scrape returns
    /\ held' = held \ {"indexBody"}
    /\ pos' = pos + 1
    /\ UNCHANGED << year, quarter, run, listBegun, recs, store, companies,
                    reports, extracted, keyVars, consumerVars >>

Next ==
    \/ ScrapeEdgarQuarterlyIndex
    \/ LineTooLong
    \/ HeaderLine
    \/ SeparatorLine
    \/ RecordLine
    \/ EndOfIndex

Spec == Init /\ [][Next]_vars
(***************************************************************************)
(* The key deriver on its own: inputs drawn from bounded sets              *)
(***************************************************************************)
FormChars == {"K", "/", "_"}

RECURSIVE SeqsUpTo(_, _)
SeqsUpTo(chars, n) ==
    IF n = 0 THEN {<< >>}
    ELSE LET shorter == SeqsUpTo(chars, n - 1)
         IN  shorter \cup {Append(q, c) : q \in shorter, c \in chars}

FormTypes == SeqsUpTo(FormChars, MaxLen) \cup {Form10K, Form10KA}

CikStrings == {Cik12, Cik012, CikBad}

InitKey ==
    /\ year \in Years
    /\ quarter \in Quarters
    /\ index = << >>
    /\ sealed = FALSE
    /\ run = 0
    /\ pc = "idle"
    /\ pos = 0
    /\ listBegun = FALSE
    /\ recs = << >>
    /\ store = {}
    /\ companies = {}
    /\ reports = {}
    /\ extracted = {}
    /\ last = NoStep
    /\ held = {}
    /\ consumer = NoConsumer
    /\ hist = NoHist
    /\ arg \in [cik : CikStrings, formType : FormTypes,
                 year : Years \cup {9}, quarter : 1..4]
    /\ ret = NoRet

\* getBucket and getKey applied to the input
DeriveKey ==
    /\ ~ret.done
    /\ ret' = [done |-> TRUE, bucket |-> getBucket(arg.cik),
               key |-> getKey(arg.formType, arg.year, arg.quarter)]
    /\ UNCHANGED << arg, pipelineVars, consumerVars >>

NextKey == DeriveKey

SpecKey == InitKey /\ [][NextKey]_vars

(***************************************************************************)
(* filings.FinancialReport and its validation                              *)
(***************************************************************************)
\* the nine canonical metrics, in the order IsValid looks at them
CanonicalFields ==
    << "Revenue", "OperatingExpense", "NetIncome",
       "TotalAssets", "TotalLiabilities", "CurrentAssets",
       "CurrentLiabilities", "OperatingCash", "CapitalExpenditures" >>

\* the field names as IsValid writes them
FieldChars ==
    [Revenue |->
        << "R", "e", "v", "e", "n", "u", "e" >>,
     OperatingExpense |->
        << "O", "p", "e", "r", "a", "t", "i", "n", "g", "E", "x", "p", "e",
           "n", "s", "e" >>,
     NetIncome |->
        << "N", "e", "t", "I", "n", "c", "o", "m", "e" >>,
     TotalAssets |->
        << "T", "o", "t", "a", "l", "A", "s", "s", "e", "t", "s" >>,
     TotalLiabilities |->
        << "T", "o", "t", "a", "l", "L", "i", "a", "b", "i", "l", "i", "t",
           "i", "e", "s" >>,
     CurrentAssets |->
        << "C", "u", "r", "r", "e", "n", "t", "A", "s", "s", "e", "t", "s" >>,
     CurrentLiabilities |->
        << "C", "u", "r", "r", "e", "n", "t", "L", "i", "a", "b", "i", "l",
           "i", "t", "i", "e", "s" >>,
     OperatingCash |->
        << "O", "p", "e", "r", "a", "t", "i", "n", "g", "C", "a", "s", "h" >>,
     CapitalExpenditures |->
        << "C", "a", "p", "i", "t", "a", "l", "E", "x", "p", "e", "n", "d",
           "i", "t", "u", "r", "e", "s" >>]

\* a validation that takes a negative metric for a missing one
IsValidPositive(fr) ==
    LET missingFields ==
           (IF fr.Revenue <= 0 THEN FieldChars.Revenue \o << "," >> ELSE << >>)
        \o (IF fr.OperatingExpense <= 0 THEN FieldChars.OperatingExpense \o << "," >> ELSE << >>)
        \o (IF fr.NetIncome <= 0 THEN FieldChars.NetIncome \o << "," >> ELSE << >>)
        \o (IF fr.TotalAssets <= 0 THEN FieldChars.TotalAssets \o << "," >> ELSE << >>)
        \o (IF fr.TotalLiabilities <= 0 THEN FieldChars.TotalLiabilities \o << "," >> ELSE << >>)
        \o (IF fr.CurrentAssets <= 0 THEN FieldChars.CurrentAssets \o << "," >> ELSE << >>)
        \o (IF fr.CurrentLiabilities <= 0 THEN FieldChars.CurrentLiabilities \o << "," >> ELSE << >>)
        \o (IF fr.OperatingCash <= 0 THEN FieldChars.OperatingCash \o << "," >> ELSE << >>)
        \o (IF fr.CapitalExpenditures <= 0 THEN FieldChars.CapitalExpenditures \o << "," >> ELSE << >>)
    IN  IF Len(missingFields) > 0
        THEN [nil |-> FALSE, text |-> missingFields]
        ELSE [nil |-> TRUE, text |-> << >>]

\* FinancialReport.IsValid: nil, or an error whose text is missingFields
IsValid(fr) ==
    LET missingFields ==
           (IF fr.Revenue = 0 THEN FieldChars.Revenue \o << "," >> ELSE << >>)
        \o (IF fr.OperatingExpense = 0 THEN FieldChars.OperatingExpense \o << "," >> ELSE << >>)
        \o (IF fr.NetIncome = 0 THEN FieldChars.NetIncome \o << "," >> ELSE << >>)
        \o (IF fr.TotalAssets = 0 THEN FieldChars.TotalAssets \o << "," >> ELSE << >>)
        \o (IF fr.TotalLiabilities = 0 THEN FieldChars.TotalLiabilities \o << "," >> ELSE << >>)
        \o (IF fr.CurrentAssets = 0 THEN FieldChars.CurrentAssets \o << "," >> ELSE << >>)
        \o (IF fr.CurrentLiabilities = 0 THEN FieldChars.CurrentLiabilities \o << "," >> ELSE << >>)
        \o (IF fr.OperatingCash = 0 THEN FieldChars.OperatingCash \o << "," >> ELSE << >>)
        \o (IF fr.CapitalExpenditures = 0 THEN FieldChars.CapitalExpenditures \o << "," >> ELSE << >>)
    IN  IF Len(missingFields) > 0
        THEN [nil |-> FALSE, text |-> missingFields]
        ELSE [nil |-> TRUE, text |-> << >>]

\* the values a metric takes: unset, a positive and a negative amount
Amounts == {0 - 1, 0, 1}

FinancialReports ==
    [CIK : {12}, Year : Years, Quarter : Quarters,
     Revenue : Amounts, OperatingExpense : Amounts, NetIncome : Amounts,
     CurrentAssets : Amounts, TotalAssets : Amounts,
     CurrentLiabilities : Amounts, TotalLiabilities : Amounts,
     OperatingCash : Amounts, CapitalExpenditures : Amounts]

InitValid ==
    /\ year \in Years
    /\ quarter \in Quarters
    /\ index = << >>
    /\ sealed = FALSE
    /\ run = 0
    /\ pc = "idle"
    /\ pos = 0
    /\ listBegun = FALSE
    /\ recs = << >>
    /\ store = {}
    /\ companies = {}
    /\ reports = {}
    /\ extracted = {}
    /\ last = NoStep
    /\ held = {}
    /\ consumer = NoConsumer
    /\ hist = NoHist
    /\ arg \in [fr : FinancialReports]
    /\ ret = NoRet

\* IsValid applied to the report
Validate ==
    /\ ~ret.done
    /\ ret' = [done |-> TRUE, err |-> IsValid(arg.fr)]
    /\ UNCHANGED << arg, pipelineVars, consumerVars >>

NextValid == Validate

SpecValid == InitValid /\ [][NextValid]_vars

(***************************************************************************)
(* filings.FinancialReportRaw.GetPreviousQuarter                           *)
(***************************************************************************)
GetPreviousQuarter(frr) ==
    IF frr.Quarter = 1
    THEN << frr.Year - 1, 4 >>
    ELSE << frr.Year, frr.Quarter - 1 >>

FilingYears == 2010..2013

\* Year and Quarter are copied from the report file, whose quarter is the
\* int the scraper was constructed with; no code checks its range
RawQuarters == 0..MaxQuarter

InitQuarter ==
    /\ year \in Years
    /\ quarter \in Quarters
    /\ index = << >>
    /\ sealed = FALSE
    /\ run = 0
    /\ pc = "idle"
    /\ pos = 0
    /\ listBegun = FALSE
    /\ recs = << >>
    /\ store = {}
    /\ companies = {}
    /\ reports = {}
    /\ extracted = {}
    /\ last = NoStep
    /\ held = {}
    /\ consumer = NoConsumer
    /\ hist = NoHist
    /\ arg \in [CIK : {12}, Year : FilingYears, Quarter : RawQuarters]
    /\ ret = NoRet

\* GetPreviousQuarter applied to the report, and then to what it returned,
\* up to four times
PreviousQuarter ==
    /\ IF ret.done THEN ret.n < 4 ELSE TRUE
    /\ LET frr == IF ret.done THEN [Year |-> ret.Year, Quarter |-> ret.Quarter]
                  ELSE arg
           prev == GetPreviousQuarter(frr)
       IN  ret' = [done |-> TRUE, n |-> IF ret.done THEN ret.n + 1 ELSE 1,
                   Year |-> prev[1], Quarter |-> prev[2]]
    /\ UNCHANGED << arg, pipelineVars, consumerVars >>

NextQuarter == PreviousQuarter

SpecQuarter == InitQuarter /\ [][NextQuarter]_vars

(***************************************************************************)
(* Raw tag names and the canonical mapping (package filings)               *)
(***************************************************************************)
\* the elements of a sequence
Elems(q) == {q[i] : i \in 1..Len(q)}

\* BasicRawFieldNameList.GetInt64RawFieldNames
GetInt64RawFieldNames ==
    << "Revenues",
       "SalesRevenueNet",
       "CostsAndExpenses",
       "OperatingExpenses",
       "NetIncomeLoss",
       "Assets",
       "LiabilitiesCurrent",
       "LongTermDebtNoncurrent",
       "DeferredTaxLiabilitiesNoncurrent",
       "AssetsCurrent",
       "NetCashProvidedByUsedInOperatingActivities",
       "PaymentsToAcquirePropertyPlantAndEquipment" >>

\* a list of variable-period names without the capital expenditures tag
GetVariablePeriodFieldNamesCashOnly ==
    << "NetCashProvidedByUsedInOperatingActivities" >>

\* BasicRawFieldNameList.GetVariablePeriodFieldNames
GetVariablePeriodFieldNames ==
    << "NetCashProvidedByUsedInOperatingActivities",
       "PaymentsToAcquirePropertyPlantAndEquipment" >>

\* a mapping that lists the Liabilities group of TotalLiabilities first
GetRawToScreenableMappingLiabilitiesFirst ==
    [Revenue |-> << << "Revenues" >>, << "SalesRevenueNet" >> >>,
     OperatingExpense |->
        << << "CostsAndExpenses" >>,
           << "OperatingExpenses" >>,
           << "CostOfGoodsAndServicesSold" >> >>,
     NetIncome |-> << << "NetIncomeLoss" >> >>,
     CurrentAssets |-> << << "AssetsCurrent" >> >>,
     TotalAssets |-> << << "Assets" >> >>,
     CurrentLiabilities |-> << << "LiabilitiesCurrent" >> >>,
     TotalLiabilities |->
        << << "Liabilities" >>,
           << "LiabilitiesCurrent",
              "DeferredTaxLiabilitiesNoncurrent",
              "LongTermDebtNoncurrent" >> >>,
     OperatingCash |->
        << << "NetCashProvidedByUsedInOperatingActivities" >> >>,
     CapitalExpenditures |->
        << << "PaymentsToAcquirePropertyPlantAndEquipment" >> >>]

\* BasicRawToScreenableMapping.GetRawToScreenableMapping: for each canonical
\* field, its candidate groups in listed order
GetRawToScreenableMapping ==
    [Revenue |-> << << "Revenues" >>, << "SalesRevenueNet" >> >>,
     OperatingExpense |->
        << << "CostsAndExpenses" >>,
           << "OperatingExpenses" >>,
           << "CostOfGoodsAndServicesSold" >> >>,
     NetIncome |-> << << "NetIncomeLoss" >> >>,
     CurrentAssets |-> << << "AssetsCurrent" >> >>,
     TotalAssets |-> << << "Assets" >> >>,
     CurrentLiabilities |-> << << "LiabilitiesCurrent" >> >>,
     TotalLiabilities |->
        << << "LiabilitiesCurrent",
              "DeferredTaxLiabilitiesNoncurrent",
              "LongTermDebtNoncurrent" >>,
           << "Liabilities" >> >>,
     OperatingCash |->
        << << "NetCashProvidedByUsedInOperatingActivities" >> >>,
     CapitalExpenditures |->
        << << "PaymentsToAcquirePropertyPlantAndEquipment" >> >>]

(***************************************************************************)
(* Normalization engine (package parser) and the raw-report persister      *)
(***************************************************************************)
\* the stored raw reports of (CIK, Year, Quarter): none or one
LoadRawReport(rs, cik, yr, qtr) ==
    {r \in rs : r.CIK = cik /\ r.Year = yr /\ r.Quarter = qtr}

\* period correction: a variable-period tag of a filing of another quarter
\* than the first becomes raw minus the prior quarter's raw value, and is
\* dropped when the prior report or its value for the tag is missing
PeriodCorrect(frr, rs) ==
    LET prev     == GetPreviousQuarter(frr)
        priors   == LoadRawReport(rs, frr.CIK, prev[1], prev[2])
        variable == Elems(GetVariablePeriodFieldNames)
        Corrected(t) == t \in variable /\ frr.Quarter # 1
        kept     == {t \in DOMAIN frr.RawFields :
                        Corrected(t) =>
                            \E p \in priors : t \in DOMAIN p.RawFields}
    IN  [t \in kept |->
            IF Corrected(t)
            THEN frr.RawFields[t]
                 - (CHOOSE p \in priors : t \in DOMAIN p.RawFields).RawFields[t]
            ELSE frr.RawFields[t]]

\* a group is available iff each of its tags is present
GroupAvailable(fields, group) ==
    \A i \in 1..Len(group) : group[i] \in DOMAIN fields

\* the sum of the values of the tags of a group
RECURSIVE GroupValue(_, _)
GroupValue(fields, group) ==
    IF Len(group) = 0 THEN 0
    ELSE fields[Head(group)] + GroupValue(fields, Tail(group))

\* the value of the first available group, 0 when no group is available
RECURSIVE Resolve(_, _)
Resolve(fields, groups) ==
    IF Len(groups) = 0 THEN 0
    ELSE IF GroupAvailable(fields, Head(groups))
         THEN GroupValue(fields, Head(groups))
         ELSE Resolve(fields, Tail(groups))

\* the canonical report of a raw report
GetFinancialReport(frr, rs) ==
    LET fields  == PeriodCorrect(frr, rs)
        mapping == GetRawToScreenableMapping
    IN  [CIK |-> frr.CIK, Year |-> frr.Year, Quarter |-> frr.Quarter,
         Revenue |-> Resolve(fields, mapping.Revenue),
         OperatingExpense |-> Resolve(fields, mapping.OperatingExpense),
         NetIncome |-> Resolve(fields, mapping.NetIncome),
         CurrentAssets |-> Resolve(fields, mapping.CurrentAssets),
         TotalAssets |-> Resolve(fields, mapping.TotalAssets),
         CurrentLiabilities |-> Resolve(fields, mapping.CurrentLiabilities),
         TotalLiabilities |-> Resolve(fields, mapping.TotalLiabilities),
         OperatingCash |-> Resolve(fields, mapping.OperatingCash),
         CapitalExpenditures |-> Resolve(fields, mapping.CapitalExpenditures)]

\* every raw tag name the two lists and the mapping mention
RawTags ==
    Elems(GetInt64RawFieldNames) \cup Elems(GetVariablePeriodFieldNames)
    \cup UNION {UNION {Elems(GetRawToScreenableMapping[f][i]) :
                          i \in 1..Len(GetRawToScreenableMapping[f])} :
                  f \in DOMAIN GetRawToScreenableMapping}

\* the facts a filing reports when it reports them all
ReportedFacts ==
    [t \in RawTags |->
        CASE t = "Liabilities" -> 500
          [] t = "LiabilitiesCurrent" -> 100
          [] t = "DeferredTaxLiabilitiesNoncurrent" -> 50
          [] t = "LongTermDebtNoncurrent" -> 200
          [] t = "Revenues" -> 7000
          [] t = "SalesRevenueNet" -> 6000
          [] t = "CostsAndExpenses" -> 5000
          [] t = "OperatingExpenses" -> 4000
          [] t = "CostOfGoodsAndServicesSold" -> 3000
          [] t = "NetIncomeLoss" -> 0 - 20
          [] t = "Assets" -> 9000
          [] t = "AssetsCurrent" -> 800
          [] t = "NetCashProvidedByUsedInOperatingActivities" -> 900
          [] t = "PaymentsToAcquirePropertyPlantAndEquipment" -> 400]

\* a function restricted to a part of its domain
Restrict(f, dom) == [t \in dom |-> f[t]]

RawReport(cik, yr, qtr, fields) ==
    [CIK |-> cik, Year |-> yr, Quarter |-> qtr, RawFields |-> fields]

InitMap ==
    /\ year \in Years
    /\ quarter \in Quarters
    /\ index = << >>
    /\ sealed = FALSE
    /\ run = 0
    /\ pc = "idle"
    /\ pos = 0
    /\ listBegun = FALSE
    /\ recs = << >>
    /\ store = {}
    /\ companies = {}
    /\ reports = {}
    /\ extracted = {}
    /\ last = NoStep
    /\ held = {}
    /\ consumer = NoConsumer
    /\ hist = NoHist
    /\ arg \in [frr : {RawReport(12, 2013, 1, Restrict(ReportedFacts, present)) :
                         present \in SUBSET RawTags},
                 rs : {{}}]
    /\ ret = NoRet

\* the canonical report is built from the raw report
Normalize ==
    /\ ~ret.done
    /\ ret' = [done |-> TRUE,
               fields |-> PeriodCorrect(arg.frr, arg.rs),
               fr |-> GetFinancialReport(arg.frr, arg.rs)]
    /\ UNCHANGED << arg, pipelineVars, consumerVars >>

NextMap == Normalize

SpecMap == InitMap /\ [][NextMap]_vars

(***************************************************************************)
(* Period correction: raw reports and stored prior reports from bounded    *)
(* sets                                                                    *)
(***************************************************************************)
\* what a stored raw report holds of the variable-period tags: cumulative
\* values that differ from company to company and from period to period
StoredFacts(cik, yr, qtr) ==
    [t \in Elems(GetVariablePeriodFieldNames) |->
        IF t = "PaymentsToAcquirePropertyPlantAndEquipment"
        THEN 100 * qtr
        ELSE 200 * qtr + (yr - 2012) + 10 * (cik - 12)]

\* the raw reports the persister may hold when a filing of quarter qtr is
\* normalized: for each of the quarter before it, the last quarter of the
\* year before and the same period of another company, no report or a report
\* with some of the variable-period tags
StoredBefore(qtr) ==
    LET keys == {<< 12, 2013, qtr - 1 >>, << 12, 2012, 4 >>,
                 << 13, 2013, qtr - 1 >>}
        Choices(k) ==
            {{}} \cup
            {{RawReport(k[1], k[2], k[3],
                        Restrict(StoredFacts(k[1], k[2], k[3]), present))} :
                present \in SUBSET Elems(GetVariablePeriodFieldNames)}
    IN  {UNION {pick[k] : k \in keys} :
            pick \in {f \in [keys -> UNION {Choices(k) : k \in keys}] :
                         \A k \in keys : f[k] \in Choices(k)}}

InitPeriod ==
    /\ year \in Years
    /\ quarter \in Quarters
    /\ index = << >>
    /\ sealed = FALSE
    /\ run = 0
    /\ pc = "idle"
    /\ pos = 0
    /\ listBegun = FALSE
    /\ recs = << >>
    /\ store = {}
    /\ companies = {}
    /\ reports = {}
    /\ extracted = {}
    /\ last = NoStep
    /\ held = {}
    /\ consumer = NoConsumer
    /\ hist = NoHist
    /\ \E qtr \in RawQuarters :
       \E absent \in SUBSET Elems(GetVariablePeriodFieldNames) :
       \E rs \in StoredBefore(qtr) :
          arg = [frr |-> RawReport(12, 2013, qtr,
                                   Restrict(ReportedFacts, RawTags \ absent)),
                 rs |-> rs]
    /\ ret = NoRet

\* the canonical report is built from the raw report and the stored ones
NormalizeQuarter ==
    /\ ~ret.done
    /\ ret' = [done |-> TRUE,
               fields |-> PeriodCorrect(arg.frr, arg.rs),
               fr |-> GetFinancialReport(arg.frr, arg.rs)]
    /\ UNCHANGED << arg, pipelineVars, consumerVars >>

NextPeriod == NormalizeQuarter

SpecPeriod == InitPeriod /\ [][NextPeriod]_vars

(***************************************************************************)
(* The batch consumer (main of PbStockParser.go)                           *)
(***************************************************************************)
Form10Q == << "1", "0", "-", "Q" >>
Form8K  == << "8", "-", "K" >>

\* a form filter that lets every file through to the parser
isFinancialFilingAny(filePath) == TRUE

\* the file path names a quarterly or an annual report
isFinancialFiling(filePath) ==
    ~(/\ ~Contains(filePath, Form10Q)
      /\ ~Contains(filePath, Form10K)
      /\ ~Contains(filePath, << "1", "0", "-", "K", "_", "A" >>)
      /\ ~Contains(filePath, << "1", "0", "-", "Q", "_", "A" >>))

\* a consumer that marks only the files with a valid report
ProcessedIfValid(reportFile, frValid) ==
    [reportFile EXCEPT !.Parsed = frValid.nil]

\* the report file as it is persisted after the attempt, valid or not
Processed(reportFile, frValid) == [reportFile EXCEPT !.Parsed = TRUE]

\* the sequences without repetition of length n over a set
RECURSIVE Orderings(_, _)
Orderings(files, n) ==
    IF n = 0 THEN {<< >>}
    ELSE {<< f >> \o rest : f \in files, rest \in Orderings(files, n - 1)}

NoRepeat(q) == \A i, j \in 1..Len(q) : q[i] = q[j] => i = j

\* PersistReportFiles.GetNextUnparsedFiles(limit): a batch, in some order, of
\* up to limit of the report files that are not parsed
GetNextUnparsedFiles(rs, limit) ==
    LET unparsed == {r \in rs : ~r.Parsed}
        n == IF Cardinality(unparsed) < limit THEN Cardinality(unparsed)
             ELSE limit
    IN  {q \in Orderings(unparsed, n) : NoRepeat(q)}

\* a report file as the scraper persists it for a record of CIK 12
QueuedFile(formType, stored) ==
    [CIK |-> 12, Year |-> 2013, Quarter |-> 1, Parsed |-> FALSE,
     FormType |-> formType,
     Filepath |-> StoreFilePath(getBucket(Cik12),
                                getKey(formType, 2013, 1), stored)]

\* the report files the queue is made of: annual, amended and quarterly
\* reports and a current report, and an annual report whose document the
\* store failed to take
QueueFiles ==
    {QueuedFile(Form10K, TRUE), QueuedFile(Form10KA, TRUE),
     QueuedFile(Form10Q, TRUE), QueuedFile(Form8K, TRUE),
     QueuedFile(Form10K, FALSE)}

\* what the parser may make of a file: a report with every metric set, or
\* one that lacks CapitalExpenditures
AllSet ==
    [CIK |-> 12, Year |-> 2013, Quarter |-> 1,
     Revenue |-> 1, OperatingExpense |-> 1, NetIncome |-> 1,
     CurrentAssets |-> 1, TotalAssets |-> 1, CurrentLiabilities |-> 1,
     TotalLiabilities |-> 1, OperatingCash |-> 1, CapitalExpenditures |-> 1]

ParsedReports == {AllSet, [AllSet EXCEPT !.CapitalExpenditures = 0]}

InitConsumer ==
    /\ year \in Years
    /\ quarter \in Quarters
    /\ index = << >>
    /\ sealed = FALSE
    /\ run = 0
    /\ pc = "idle"
    /\ pos = 0
    /\ listBegun = FALSE
    /\ recs = << >>
    /\ store = {}
    /\ companies = {}
    /\ reports \in {rs \in SUBSET QueueFiles : Cardinality(rs) <= MaxQueue}
    /\ extracted = {}
    /\ last = NoStep
    /\ held = {}
    /\ consumer = [NoConsumer EXCEPT !.pc = "loop"]
    /\ hist = NoHist
    /\ arg = NoArg
    /\ ret = NoRet

consumerFrame ==
    << year, quarter, index, sealed, run, pc, pos, listBegun, recs, store,
       companies, extracted, last, held, keyVars >>

\* the locals after one file of the page: after the last one the batch
\* counts are added to the totals and the loop starts over
AfterFile(c, valid, invalid) ==
    LET numValid   == c.numValid + valid
        numInvalid == c.numInvalid + invalid
    IN  IF Len(c.page) > 1
        THEN [c EXCEPT !.page = Tail(c.page), !.numValid = numValid,
                       !.numInvalid = numInvalid]
        ELSE [c EXCEPT !.pc = "loop", !.page = << >>,
                       !.numValid = numValid, !.numInvalid = numInvalid,
                       !.totalNumValid = c.totalNumValid + numValid,
                       !.totalNumInvalid = c.totalNumInvalid + numInvalid]

\* a page with files in it is pulled
PullPage ==
    /\ consumer.pc = "loop"
    /\ \E unparsedFiles \in GetNextUnparsedFiles(reports, batchLimit) :
          /\ Len(unparsedFiles) # 0
          /\ consumer' = [consumer EXCEPT !.pc = "batch",
                                          !.page = unparsedFiles,
                                          !.numValid = 0, !.numInvalid = 0]
          /\ hist' = [hist EXCEPT !.pulled = hist.pulled \o unparsedFiles,
                                  !.pages = hist.pages + 1]
    /\ UNCHANGED << reports, consumerFrame >>

\* the page is empty: the loop is left and the program ends
EmptyPage ==
    /\ consumer.pc = "loop"
    /\ \E unparsedFiles \in GetNextUnparsedFiles(reports, batchLimit) :
          Len(unparsedFiles) = 0
    /\ consumer' = [consumer EXCEPT !.pc = "ended"]
    /\ hist' = [hist EXCEPT !.pages = hist.pages + 1]
    /\ UNCHANGED << reports, consumerFrame >>

\* a file that is no quarterly or annual report is marked without parsing
SkipFile ==
    /\ consumer.pc = "batch"
    /\ LET reportFile == Head(consumer.page)
       IN  /\ ~isFinancialFiling(reportFile.Filepath)
           /\ reports' = InsertUpdateReportFile(
                             reports, [reportFile EXCEPT !.Parsed = TRUE])
           /\ consumer' = AfterFile(consumer, 0, 0)
    /\ UNCHANGED << hist, consumerFrame >>

\* a quarterly or annual report is parsed, validated and marked
ParseFile ==
    /\ consumer.pc = "batch"
    /\ LET reportFile == Head(consumer.page)
       IN  /\ isFinancialFiling(reportFile.Filepath)
           /\ \E fr \in ParsedReports :
                LET frValid == IsValid(fr)
                IN  /\ reports' = InsertUpdateReportFile(
                                      reports, Processed(reportFile, frValid))
                    /\ consumer' = IF frValid.nil
                                   THEN AfterFile(consumer, 1, 0)
                                   ELSE AfterFile(consumer, 0, 1)
                    /\ hist' = [hist EXCEPT !.attempted =
                                   hist.attempted \cup
                                   {[file |-> reportFile, valid |-> frValid.nil]}]
    /\ UNCHANGED consumerFrame

NextConsumer ==
    \/ PullPage
    \/ EmptyPage
    \/ SkipFile
    \/ ParseFile

SpecConsumer == InitConsumer /\ [][NextConsumer]_vars

\* main is one sequential program: it takes its next step whenever it has one
SpecConsumerLive == SpecConsumer /\ WF_vars(NextConsumer)

(***************************************************************************)
(* The extractor on its own: archives drawn from bounded sets              *)
(***************************************************************************)
EntryNames == {EntryXsd, EntryInst, EntryLab, EntryInst2}

Archives ==
    {ZipError} \cup
    {[err |-> FALSE, File |-> f] :
        f \in UNION {[1..n -> EntryNames] : n \in 0..MaxEntries}}

\* outcomes of zippedFile.Open() and of the StoreFile that follows it
OpenStoreOutcomes ==
    {[openOk |-> FALSE, storeOk |-> FALSE],
     [openOk |-> TRUE, storeOk |-> FALSE],
     [openOk |-> TRUE, storeOk |-> TRUE]}

\* the report file stub ParseIndexFile hands to GetXbrl for LineRecord
StubReportFile ==
    [CIK |-> 12, Year |-> 2013, Quarter |-> 1, Parsed |-> FALSE,
     FormType |-> Form10K, Filepath |-> << >>]

InitZip ==
    /\ year \in Years
    /\ quarter \in Quarters
    /\ index = << >>
    /\ sealed = FALSE
    /\ run = 0
    /\ pc = "idle"
    /\ pos = 0
    /\ listBegun = FALSE
    /\ recs = << >>
    /\ store = {}
    /\ companies = {}
    /\ reports = {}
    /\ extracted = {}
    /\ last = NoStep
    /\ held = {}
    /\ consumer = NoConsumer
    /\ hist = NoHist
    /\ arg \in [zip : Archives, out : OpenStoreOutcomes]
    /\ ret = NoRet

\* getXbrlFromZip applied to the archive
ExtractZip ==
    /\ ~ret.done
    /\ ret' = [done |-> TRUE,
               bucket |-> getBucket(Cik12),
               key |-> getKey(Form10K, year, quarter),
               xbrl |-> getXbrlFromZip(arg.zip, getBucket(Cik12),
                                       getKey(Form10K, year, quarter),
                                       StubReportFile,
                                       arg.out.openOk, arg.out.storeOk)]
    /\ UNCHANGED << arg, pipelineVars, consumerVars >>

NextZip == ExtractZip

SpecZip == InitZip /\ [][NextZip]_vars

(***************************************************************************)
(* isXbrlFileMatch on its own: entry names drawn from bounded sets         *)
(***************************************************************************)
NamePrefixes == {<< >>, << "A" >>, << "a" >>}

NameStems == {<< "a", "-", "1" >>, << "a", "-" >>, << "-", "1" >>,
              << "a", "1" >>}

NameSeps == {<< "." >>, << "_" >>, << "x" >>}

NameSuffixes == {<< >>, << ".", "x", "s", "d" >>, << "x" >>}

FileNames ==
    {p \o st \o sep \o << "x", "m", "l" >> \o suf :
        p \in NamePrefixes, st \in NameStems, sep \in NameSeps,
        suf \in NameSuffixes}
    \cup EntryNames

InitMatch ==
    /\ year \in Years
    /\ quarter \in Quarters
    /\ index = << >>
    /\ sealed = FALSE
    /\ run = 0
    /\ pc = "idle"
    /\ pos = 0
    /\ listBegun = FALSE
    /\ recs = << >>
    /\ store = {}
    /\ companies = {}
    /\ reports = {}
    /\ extracted = {}
    /\ last = NoStep
    /\ held = {}
    /\ consumer = NoConsumer
    /\ hist = NoHist
    /\ arg \in [fileName : FileNames]
    /\ ret = NoRet

\* isXbrlFileMatch applied to the entry name
MatchEntry ==
    /\ ~ret.done
    /\ ret' = [done |-> TRUE, isMatch |-> isXbrlFileMatch(arg.fileName)]
    /\ UNCHANGED << arg, pipelineVars, consumerVars >>

NextMatch == MatchEntry

SpecMatch == InitMatch /\ [][NextMatch]_vars

(***************************************************************************)
(* Properties                                                              *)
(***************************************************************************)
\* the step that has just handled a record of the list region
OnRecord == last.op = "record" /\ last.rec.fields >= 5

\* the records whose document was stored before the record just handled
Earlier ==
    {e \in extracted :
        \/ e.run < last.run
        \/ e.run = last.run /\ e.lineNo < last.lineNo}

\* C1: a record whose CIK does not parse as an integer is skipped: no
\* company is upserted, no package is fetched, no report file is persisted
\* for it, and the records after it are still processed.
C1_BadCikRecordSkipped ==
    (OnRecord /\ last.rec.cikErr) =>
        /\ ~last.rec.upserted
        /\ ~last.rec.xbrl.fetched
        /\ last.rec.xbrl.persisted = << >>
        /\ pc = "parse"

\* C2: a record whose (bucket, key) already has a path in the store is
\* neither fetched nor persisted, and a run over the same index fetches no
\* record whose document an earlier run has stored.
C2_StoredRecordNotFetched ==
    OnRecord =>
        /\ last.rec.filePath # << >> =>
              /\ ~last.rec.xbrl.fetched
              /\ last.rec.xbrl.stores = << >>
              /\ last.rec.xbrl.persisted = << >>
        /\ (\E e \in extracted : e.run < last.run /\ e.lineNo = last.lineNo) =>
              /\ last.rec.filePath # << >>
              /\ ~last.rec.xbrl.fetched

C2_Witness ==
    /\ OnRecord
    /\ last.run = 2
    /\ \E e \in extracted : e.run = 1 /\ e.lineNo = last.lineNo
    /\ last.rec.filePath # << >>
    /\ ~last.rec.xbrl.fetched

\* C3: a failure on one record or one archive aborts only that item: the
\* run never aborts because of it and the later records are processed.
C3_FailureAbortsOnlyItem == pc # "panic"

\* C4: when the index GET fails or answers another status than 200, the
\* run ends at once: one GET, no line read, nothing upserted, fetched,
\* stored or persisted, and nothing happens until another run is started.
C4_FailedIndexFetchAbortsRun ==
    /\ [][(run' # run /\ (last'.get.err \/ last'.get.status # StatusOK)) =>
            /\ pc' = "done"
            /\ last'.op = "scrape" /\ last'.gets = 1
            /\ pos' = 0 /\ recs' = << >>
            /\ UNCHANGED << index, store, companies, reports, extracted >>]_vars
    /\ [][pc = "done" => run' = run + 1]_vars

C4_Witness ==
    /\ last.op = "scrape"
    /\ ~last.get.err /\ last.get.status = 404
    /\ pc = "done"
    /\ pos = 0

\* C5: no part of a line that is longer than the read buffer is parsed as a
\* record or as the header separator.
C5_LongLineSkippedWhole ==
    last.op \in {"record", "separator"} =>
        Len(index[last.lineNo]) + 1 <= BufSize

\* the last line of the index that ReadLine has returned to its end
CurLine ==
    LET reads == ReadAll(index)
        full  == {i \in 1..pos : i <= Len(reads) /\ ~reads[i].isPrefix}
    IN  IF full = {} THEN 0
        ELSE reads[CHOOSE i \in full : \A j \in full : j <= i].lineNo

\* the first line of the index that contains the separator, 0 if none
SepLine ==
    LET seps == {i \in 1..Len(index) : Contains(index[i], DASHES)}
    IN  IF seps = {} THEN 0
        ELSE CHOOSE i \in seps : \A j \in seps : i <= j

\* C6: the parser is in LIST exactly from the first separator line on,
\* nothing at or before that line is handled as a record, and every line
\* after it is handled as a record, in index order, to the end of the index.
C6_HeaderThenList ==
    pc # "idle" /\ (last.op = "scrape" => indexGetOk(last.get)) =>
        /\ listBegun <=> (SepLine # 0 /\ SepLine <= CurLine)
        /\ recs = IF listBegun
                  THEN [i \in 1..(CurLine - SepLine) |-> SepLine + i]
                  ELSE << >>
        /\ pc # "panic"

\* C7: getBucket is "CIK_" followed by the CIK string, and getKey is
\* "Y" year "Q" quarter "FT" followed by the form type in which every "/"
\* is "_" and every other character is itself.
C7_KeyDeriver ==
    ret.done =>
        LET prefix == << "Y" >> \o Itoa(arg.year) \o << "Q" >>
                      \o Itoa(arg.quarter) \o << "F", "T" >>
            n      == Len(prefix)
        IN  /\ Len(ret.bucket) = 4 + Len(arg.cik)
            /\ SubSeq(ret.bucket, 1, 4) = << "C", "I", "K", "_" >>
            /\ SubSeq(ret.bucket, 5, Len(ret.bucket)) = arg.cik
            /\ Len(ret.key) = n + Len(arg.formType)
            /\ SubSeq(ret.key, 1, n) = prefix
            /\ \A i \in 1..Len(arg.formType) :
                  ret.key[n + i] = IF arg.formType[i] = "/" THEN "_"
                                   ELSE arg.formType[i]

C7_Witness ==
    /\ ret.done
    /\ arg.formType = Form10KA
    /\ arg.year = 2013 /\ arg.quarter = 4
    /\ ret.key = << "Y", "2", "0", "1", "3", "Q", "4", "F", "T",
                    "1", "0", "-", "K", "_", "A" >>

\* C8 as claimed: a record with the same integer CIK and form type as a
\* record whose document was stored derives the same (bucket, key), and
\* its dedup check finds that document.
C8_SameIntegerCikSameKey ==
    (OnRecord /\ ~last.rec.cikErr) =>
        \A e \in Earlier :
            (~Atoi(e.cik).err /\ Atoi(e.cik).val = last.rec.cikInt
               /\ e.formType = last.rec.formType) =>
                /\ e.bucket = last.rec.bucket /\ e.key = last.rec.fileKey
                /\ last.rec.filePath # << >>
                /\ ~last.rec.xbrl.fetched

\* C8 amended: a record with the same CIK string and form type as a record
\* whose document was stored derives the same (bucket, key), and its dedup
\* check finds that document.
C8_SameCikStringSameKey ==
    OnRecord =>
        \A e \in Earlier :
            (e.cik = last.rec.cik /\ e.formType = last.rec.formType) =>
                /\ e.bucket = last.rec.bucket /\ e.key = last.rec.fileKey
                /\ last.rec.filePath = PathOf(e.bucket, e.key)
                /\ ~last.rec.xbrl.fetched

C8_Witness ==
    /\ OnRecord
    /\ \E e \in extracted :
          /\ e.run = last.run /\ e.lineNo < last.lineNo
          /\ e.cik = last.rec.cik /\ e.formType = last.rec.formType
    /\ last.rec.filePath # << >>

\* C9: a package fetch that fails, by an error or by another status than
\* 200, writes nothing to the store and hands nothing to the extractor.
C9_FailedFetchWritesNothing ==
    (OnRecord /\ last.rec.xbrl.fetched
       /\ (last.rec.xbrl.get.err \/ last.rec.xbrl.get.status # StatusOK)) =>
        /\ last.rec.xbrl.stores = << >>
        /\ ~last.rec.xbrl.handed

\* C10: a persisted report file is unparsed, carries the CIK, year, quarter
\* and form type of its record, and its Filepath is the non-empty path of
\* the document stored under the record's (bucket, key).
C10_PersistedReportFile ==
    OnRecord =>
        \A i \in 1..Len(last.rec.xbrl.persisted) :
            LET rf == last.rec.xbrl.persisted[i]
            IN  /\ rf.Parsed = FALSE
                /\ rf.CIK = last.rec.cikInt
                /\ rf.Year = year /\ rf.Quarter = quarter
                /\ rf.FormType = last.rec.formType
                /\ rf.Filepath # << >>
                /\ rf.Filepath = GetFilePath(store, last.rec.bucket,
                                             last.rec.fileKey)

\* the metrics of a report that are zero
ZeroFields(fr) ==
    {f \in {CanonicalFields[i] : i \in 1..Len(CanonicalFields)} : fr[f] = 0}

\* C11: IsValid returns nil iff all nine metrics are non-zero; otherwise the
\* error text is made of the names of the zero metrics, each once and each
\* followed by a comma, and of nothing else; a report in which only
\* CapitalExpenditures is zero yields exactly "CapitalExpenditures,".
C11_IsValidNamesZeroFields ==
    ret.done =>
        LET zero   == ZeroFields(arg.fr)
            pieces == Split(ret.err.text, ",")
            n      == Len(pieces) - 1
        IN  /\ ret.err.nil <=> zero = {}
            /\ ret.err.nil => ret.err.text = << >>
            /\ ~ret.err.nil =>
                  /\ pieces[n + 1] = << >>
                  /\ {pieces[i] : i \in 1..n} = {FieldChars[f] : f \in zero}
                  /\ n = Cardinality(zero)
            /\ zero = {"CapitalExpenditures"} =>
                  ret.err.text = FieldChars.CapitalExpenditures \o << "," >>

C11_Witness ==
    /\ ret.done
    /\ ZeroFields(arg.fr) = {"CapitalExpenditures"}
    /\ arg.fr.NetIncome < 0
    /\ ~ret.err.nil
    /\ Len(ret.err.text) = 20

\* C12: when a page is about to be pulled, every report file pulled so far
\* is persisted with Parsed = true, after a valid and after an invalid
\* report alike, and is no longer persisted unparsed; no report file is
\* pulled twice; and the consumer reaches an empty page and ends.
C12_ConsumerDrainsQueue ==
    /\ [](consumer.pc \in {"loop", "ended"} =>
            \A i \in 1..Len(hist.pulled) :
                /\ [hist.pulled[i] EXCEPT !.Parsed = TRUE] \in reports
                /\ hist.pulled[i] \notin reports)
    /\ [](\A i, j \in 1..Len(hist.pulled) :
            hist.pulled[i] = hist.pulled[j] => i = j)
    /\ <>(consumer.pc = "ended")

C12_Witness ==
    /\ consumer.pc = "ended"
    /\ hist.pages = 3
    /\ Len(hist.pulled) = 3
    /\ consumer.totalNumValid = 1
    /\ consumer.totalNumInvalid = 1

\* C13 as claimed: on every report file persisted with Parsed = true the
\* parser and the validation have been run.
C13_ParsedOnlyAfterNormalization ==
    \A r \in reports :
        r.Parsed =>
            \E a \in hist.attempted : a.file = [r EXCEPT !.Parsed = FALSE]

\* C13 amended: on a report file persisted with Parsed = true the parser
\* and the validation have been run iff its Filepath contains "10-Q" or
\* "10-K"; any other file is marked without being parsed.
C13_ParsedAfterNormalizationOrSkip ==
    \A r \in reports :
        r.Parsed =>
            ((Contains(r.Filepath, Form10Q) \/ Contains(r.Filepath, Form10K))
               <=> \E a \in hist.attempted :
                       a.file = [r EXCEPT !.Parsed = FALSE])

C13_Witness ==
    /\ consumer.pc = "ended"
    /\ \E r \in reports :
          /\ r.Parsed /\ r.FormType = Form10KA /\ r.Filepath # << >>
          /\ \E a \in hist.attempted :
                a.file = [r EXCEPT !.Parsed = FALSE] /\ ~a.valid
    /\ \E r \in reports :
          /\ r.Parsed /\ r.FormType = Form8K
          /\ \A a \in hist.attempted : a.file # [r EXCEPT !.Parsed = FALSE]

\* the positions of the groups of a field that are available
Available(fields, f) ==
    {i \in 1..Len(GetRawToScreenableMapping[f]) :
        \A t \in Elems(GetRawToScreenableMapping[f][i]) : t \in DOMAIN fields}

\* the sum of the values of a set of tags
RECURSIVE SumOver(_, _)
SumOver(fields, tags) ==
    IF tags = {} THEN 0
    ELSE LET t == CHOOSE x \in tags : TRUE
         IN  fields[t] + SumOver(fields, tags \ {t})

\* C14: each canonical field is the sum of its first available group in
\* listed order, and zero when no group is available; TotalLiabilities is
\* the sum of LiabilitiesCurrent, DeferredTaxLiabilitiesNoncurrent and
\* LongTermDebtNoncurrent whenever all three are present, also next to
\* Liabilities: 350 for the values 100, 50, 200 and 500.
C14_FirstAvailableGroup ==
    ret.done =>
        LET raw == arg.frr.RawFields
            triple == {"LiabilitiesCurrent", "DeferredTaxLiabilitiesNoncurrent",
                       "LongTermDebtNoncurrent"}
        IN  /\ \A f \in Elems(CanonicalFields) :
                  LET av == Available(raw, f)
                  IN  IF av = {} THEN ret.fr[f] = 0
                      ELSE \E i \in av :
                             /\ \A j \in av : i <= j
                             /\ ret.fr[f] =
                                  SumOver(raw,
                                      Elems(GetRawToScreenableMapping[f][i]))
            /\ triple \subseteq DOMAIN raw =>
                  ret.fr.TotalLiabilities = SumOver(raw, triple)
            /\ (triple \cup {"Liabilities"} \subseteq DOMAIN raw
                  /\ raw["Liabilities"] = 500 /\ raw["LiabilitiesCurrent"] = 100
                  /\ raw["DeferredTaxLiabilitiesNoncurrent"] = 50
                  /\ raw["LongTermDebtNoncurrent"] = 200) =>
                  ret.fr.TotalLiabilities = 350
            /\ (triple \cap DOMAIN raw # triple /\ "Liabilities" \in DOMAIN raw) =>
                  ret.fr.TotalLiabilities = raw["Liabilities"]

C14_Witness ==
    /\ ret.done
    /\ DOMAIN arg.frr.RawFields =
          {"Liabilities", "LiabilitiesCurrent",
           "DeferredTaxLiabilitiesNoncurrent", "LongTermDebtNoncurrent"}
    /\ arg.frr.RawFields["Liabilities"] = 500
    /\ ret.fr.TotalLiabilities = 350
    /\ ret.fr.Revenue = 0

\* the canonical field a variable-period tag is mapped to
FieldOf(t) ==
    IF t = "NetCashProvidedByUsedInOperatingActivities"
    THEN "OperatingCash"
    ELSE "CapitalExpenditures"

\* C15: a variable-period tag of a first-quarter filing keeps its raw value;
\* in quarters 2 to 4 it is raw minus the value of the same tag in the
\* stored raw report of the same CIK for the quarter before, and when that
\* report or that tag is missing the tag is absent and its canonical field
\* is zero.
C15_PeriodCorrection ==
    (ret.done /\ arg.frr.Quarter \in 1..4) =>
        \A t \in {"NetCashProvidedByUsedInOperatingActivities",
                  "PaymentsToAcquirePropertyPlantAndEquipment"}
                 \cap DOMAIN arg.frr.RawFields :
            LET frr   == arg.frr
                prior == {r \in arg.rs :
                            /\ r.CIK = frr.CIK /\ r.Year = frr.Year
                            /\ r.Quarter = frr.Quarter - 1
                            /\ t \in DOMAIN r.RawFields}
            IN  IF frr.Quarter = 1
                THEN /\ t \in DOMAIN ret.fields
                     /\ ret.fields[t] = frr.RawFields[t]
                     /\ ret.fr[FieldOf(t)] = frr.RawFields[t]
                ELSE IF prior # {}
                THEN \A r \in prior :
                        /\ t \in DOMAIN ret.fields
                        /\ ret.fields[t] = frr.RawFields[t] - r.RawFields[t]
                        /\ ret.fr[FieldOf(t)] = frr.RawFields[t] - r.RawFields[t]
                ELSE /\ t \notin DOMAIN ret.fields
                     /\ ret.fr[FieldOf(t)] = 0

C15_Witness ==
    /\ ret.done
    /\ arg.frr.Quarter = 3
    /\ \E r \in arg.rs :
          /\ r.CIK = 12 /\ r.Year = 2013 /\ r.Quarter = 2
          /\ DOMAIN r.RawFields = {"NetCashProvidedByUsedInOperatingActivities"}
    /\ \E r \in arg.rs : r.CIK = 13
    /\ "PaymentsToAcquirePropertyPlantAndEquipment" \in DOMAIN arg.frr.RawFields
    /\ ret.fr.OperatingCash = 900 - 401
    /\ ret.fr.CapitalExpenditures = 0

\* C20: every raw tag name in a group of the canonical mapping, and every
\* variable-period tag name, is among the names GetInt64RawFieldNames lists
\* for extraction.
C20_MappedTagsExtracted ==
    ret.done =>
        /\ \A f \in DOMAIN GetRawToScreenableMapping :
              \A i \in 1..Len(GetRawToScreenableMapping[f]) :
                  Elems(GetRawToScreenableMapping[f][i])
                      \subseteq Elems(GetInt64RawFieldNames)
        /\ Elems(GetVariablePeriodFieldNames)
              \subseteq Elems(GetInt64RawFieldNames)

\* C16: GetPreviousQuarter yields a quarter in 1..4: (Year-1, 4) for
\* quarter 1 and (Year, Quarter-1) for any other quarter; four applications
\* to a pair with a quarter in 1..4 yield the same quarter, one year earlier.
C16_PreviousQuarterValid ==
    ret.done =>
        /\ ret.Quarter \in 1..4
        /\ ret.n = 1 =>
              IF arg.Quarter = 1
              THEN ret.Year = arg.Year - 1 /\ ret.Quarter = 4
              ELSE ret.Year = arg.Year /\ ret.Quarter = arg.Quarter - 1
        /\ (ret.n = 4 /\ arg.Quarter \in 1..4) =>
              ret.Year = arg.Year - 1 /\ ret.Quarter = arg.Quarter

\* positions of the archive entries that match
Matches(files) == {i \in 1..Len(files) : isXbrlFileMatch(files[i])}

\* C17: per archive there is at most one StoreFile, under (bucket, key),
\* and at most one report file; the only entry that is read is the first
\* matching entry in archive order; an archive without a matching entry
\* gives no store write and no report file.
C17_FirstMatchOnly ==
    (ret.done /\ ~arg.zip.err) =>
        LET x     == ret.xbrl
            files == arg.zip.File
            ms    == Matches(files)
        IN  /\ Len(x.stores) <= 1
            /\ \A i \in 1..Len(x.stores) :
                  x.stores[i].bucket = ret.bucket /\ x.stores[i].name = ret.key
            /\ Len(x.persisted) <= 1
            /\ Len(x.opened) <= 1
            /\ \A i \in 1..Len(x.opened) :
                  \E m \in ms : /\ \A k \in ms : m <= k
                                /\ x.opened[i] = files[m]
            /\ ms = {} =>
                  x.stores = << >> /\ x.persisted = << >> /\ x.opened = << >>

C17_Witness ==
    /\ ret.done /\ ~arg.zip.err
    /\ arg.zip.File = << EntryXsd, EntryInst2, EntryInst >>
    /\ ret.xbrl.opened = << EntryInst2 >>
    /\ Len(ret.xbrl.stores) = 1
    /\ Len(ret.xbrl.persisted) = 1

\* the resources a record has acquired and released, as sets
Acquired == {last.rec.xbrl.acquired[i] : i \in 1..Len(last.rec.xbrl.acquired)}

Released == {last.rec.xbrl.released[i] : i \in 1..Len(last.rec.xbrl.released)}

\* C18: when the scrape has returned, the run holds no resource; every
\* resource a record acquires is released exactly once by the end of that
\* record; and no release aborts the run.
C18_ResourcesReleasedOnce ==
    /\ pc \in {"done", "panic"} => held = {}
    /\ OnRecord =>
          /\ Acquired = Released
          /\ Len(last.rec.xbrl.released) = Cardinality(Released)
          /\ ~last.rec.xbrl.nilClose

\* a letter a-z or a digit
IsAlnum(c) == c \in (Lower \cup Digits)

\* the whole name is: one or more of a-z/0-9, a dash, one or more digits,
\* and the suffix ".xml"
IsInstanceName(name) ==
    \E d \in 2..(Len(name) - 5) :
        /\ \A i \in 1..(d - 1) : IsAlnum(name[i])
        /\ name[d] = "-"
        /\ \A i \in (d + 1)..(Len(name) - 4) : name[i] \in Digits
        /\ SubSeq(name, Len(name) - 3, Len(name)) = << ".", "x", "m", "l" >>

\* C19: isXbrlFileMatch accepts a name only if the whole name has the
\* shape of an instance document.
C19_MatchOnlyInstanceShape ==
    (ret.done /\ ret.isMatch) => IsInstanceName(arg.fileName)
====
